---- MODULE Spec2Model ----
(***************************************************************************)
(* Model of pyreflectivity/mirror.py: the range partitioner _iter_range,   *)
(* the scan methods of ThickMirror and MultiLayerMirror, and the           *)
(* two-dimensional sweep EnergyAngleScan.scan.                             *)
(*                                                                         *)
(* The partitioner works on Python floats.  Its results depend on the      *)
(* rounding of every operation (it truncates a quotient to an integer and  *)
(* takes the ceiling of another), so floats are modelled bit for bit as    *)
(* IEEE-754 binary64 values: a sign, a 53-bit significand and an exponent, *)
(* every operation rounded to nearest, ties to even.  The significands do  *)
(* not fit TLC's integers; they are kept as sequences of 15-bit limbs.     *)
(***************************************************************************)
EXTENDS Integers, Sequences, FiniteSets, TLC

(***************************************************************************)
(* With(v, F) is F applied to the value of v.  TLC computes the argument   *)
(* of an operator anew wherever the operator's body uses it; With computes *)
(* v once, which keeps the arithmetic below from being repeated.           *)
(***************************************************************************)
With(v, F(_)) == CHOOSE y \in {F(x) : x \in {v}} : TRUE

MaxOf(x, y) == IF x >= y THEN x ELSE y
MinOf(x, y) == IF x <= y THEN x ELSE y

(***************************************************************************)
(* Natural numbers of any size: little-endian sequences of limbs in        *)
(* 0..Base-1 without leading (high) zero limbs; zero is << >>.             *)
(***************************************************************************)
Base == 2^15

RECURSIVE IntBitLen(_)
IntBitLen(n) == IF n = 0 THEN 0 ELSE 1 + IntBitLen(n \div 2)

\* bits of a limb
LimbBits == IntBitLen(Base) - 1

Limb(a, i) == IF i <= Len(a) THEN a[i] ELSE 0

\* a without its high zero limbs
BNorm(v) ==
  With(v, LAMBDA a :
    LET nz == {i \in 1..Len(a) : a[i] # 0}
    IN  IF nz = {} THEN << >>
        ELSE SubSeq(a, 1, CHOOSE i \in nz : \A j \in nz : j <= i))

RECURSIVE BFromInt(_)
BFromInt(n) == IF n = 0 THEN << >> ELSE <<n % Base>> \o BFromInt(n \div Base)

RECURSIVE BToInt(_)
BToInt(a) == IF a = << >> THEN 0 ELSE a[1] + Base * BToInt(Tail(a))

RECURSIVE BAddFrom(_, _, _, _)
BAddFrom(a, b, i, c) ==
  IF i > MaxOf(Len(a), Len(b))
  THEN (IF c = 0 THEN << >> ELSE <<c>>)
  ELSE LET s == Limb(a, i) + Limb(b, i) + c
       IN  <<s % Base>> \o BAddFrom(a, b, i + 1, s \div Base)

BAdd(v, w) == With(<<v, w>>, LAMBDA p : BAddFrom(p[1], p[2], 1, 0))

\* a - b for a >= b
RECURSIVE BSubFrom(_, _, _, _)
BSubFrom(a, b, i, c) ==
  IF i > Len(a) THEN << >>
  ELSE LET d == Limb(a, i) - Limb(b, i) - c
       IN  IF d < 0 THEN <<d + Base>> \o BSubFrom(a, b, i + 1, 1)
           ELSE <<d>> \o BSubFrom(a, b, i + 1, 0)

BSub(v, w) == With(<<v, w>>, LAMBDA p : BNorm(BSubFrom(p[1], p[2], 1, 0)))

\* -1, 0, 1 as a < b, a = b, a > b
RECURSIVE BCmpFrom(_, _, _)
BCmpFrom(a, b, i) ==
  IF i = 0 THEN 0
  ELSE IF a[i] < b[i] THEN -1
  ELSE IF a[i] > b[i] THEN 1
  ELSE BCmpFrom(a, b, i - 1)

BCmp(v, w) ==
  With(<<v, w>>, LAMBDA p :
    IF Len(p[1]) < Len(p[2]) THEN -1
    ELSE IF Len(p[1]) > Len(p[2]) THEN 1
    ELSE BCmpFrom(p[1], p[2], Len(p[1])))

\* a * n for 0 <= n <= Base
RECURSIVE BMulFrom(_, _, _, _)
BMulFrom(a, n, i, c) ==
  IF i > Len(a) THEN (IF c = 0 THEN << >> ELSE <<c>>)
  ELSE LET p == a[i] * n + c
       IN  <<p % Base>> \o BMulFrom(a, n, i + 1, p \div Base)

BMulSmall(v, k) == With(<<v, k>>, LAMBDA p : BNorm(BMulFrom(p[1], p[2], 1, 0)))

\* floor(a / n) for 1 <= n <= Base
RECURSIVE BDivFrom(_, _, _, _)
BDivFrom(a, n, i, r) ==
  IF i = 0 THEN << >>
  ELSE LET t == r * Base + a[i]
       IN  BDivFrom(a, n, i - 1, t % n) \o <<t \div n>>

BDivSmall(v, k) ==
  With(<<v, k>>, LAMBDA p : BNorm(BDivFrom(p[1], p[2], Len(p[1]), 0)))

\* a * 2^k
BShl(v, k) ==
  With(<<v, k>>, LAMBDA p :
    IF p[1] = << >> THEN << >>
    ELSE [j \in 1..(p[2] \div LimbBits) |-> 0]
           \o BMulSmall(p[1], 2^(p[2] % LimbBits)))

\* floor(a / 2^k)
BShr(v, k) ==
  With(<<v, k>>, LAMBDA p :
    IF p[2] \div LimbBits >= Len(p[1]) THEN << >>
    ELSE BDivSmall(SubSeq(p[1], (p[2] \div LimbBits) + 1, Len(p[1])),
                   2^(p[2] % LimbBits)))

BBitLen(v) ==
  With(v, LAMBDA a :
    IF a = << >> THEN 0 ELSE LimbBits * (Len(a) - 1) + IntBitLen(a[Len(a)]))

BIsOdd(a) == a # << >> /\ a[1] % 2 = 1

\* The largest d in lo..hi with b * d <= r (b * lo <= r is given)
RECURSIVE BDigit(_, _, _, _)
BDigit(r, b, lo, hi) ==
  IF lo = hi THEN lo
  ELSE With(<<(lo + hi + 1) \div 2, lo, hi>>, LAMBDA p :
         IF BCmp(BMulSmall(b, p[1]), r) <= 0
         THEN BDigit(r, b, p[1], p[3])
         ELSE BDigit(r, b, p[2], p[1] - 1))

\* <<floor(a / b), a mod b>> for b # 0, by long division: one limb of the
\* quotient for each limb a[i], a[i-1], ..., a[1], r the remainder so far
RECURSIVE BDivModFrom(_, _, _, _)
BDivModFrom(a, b, i, r) ==
  IF i = 0 THEN <<<< >>, r>>
  ELSE With(BNorm(<<a[i]>> \o r), LAMBDA r2 :
       With(BDigit(r2, b, 0, Base - 1), LAMBDA d :
       With(BDivModFrom(a, b, i - 1, BSub(r2, BMulSmall(b, d))), LAMBDA rest :
         <<rest[1] \o <<d>>, rest[2]>>)))

BDivMod(v, w) ==
  With(<<v, w>>, LAMBDA p :
  With(BDivModFrom(p[1], p[2], Len(p[1]), << >>), LAMBDA qr :
    <<BNorm(qr[1]), qr[2]>>))

(***************************************************************************)
(* IEEE-754 binary64.  A value is [neg, m, e]: (-1)^neg * m * 2^e with m   *)
(* of exactly Precision bits, or m = << >> for zero.  The exponent range   *)
(* is not modelled: no value of a scan is near overflow or subnormal.      *)
(***************************************************************************)
Precision == 53

DZero == [neg |-> FALSE, m |-> << >>, e |-> 0]

\* n of more than Precision bits, cut to Precision bits and rounded to
\* nearest, ties to even; sticky says that a nonzero part below one unit of n
\* was cut off before
DRoundCut(neg, n, e, sticky, s) ==
  With(BShr(n, s), LAMBDA q :
  With(BCmp(BSub(n, BShl(q, s)), BShl(<<1>>, s - 1)), LAMBDA c :
  With(IF c > 0 \/ (c = 0 /\ (sticky \/ BIsOdd(q))) THEN BAdd(q, <<1>>) ELSE q,
       LAMBDA q2 :
         IF BBitLen(q2) > Precision
         THEN [neg |-> neg, m |-> BShr(q2, 1), e |-> e + s + 1]
         ELSE [neg |-> neg, m |-> q2, e |-> e + s])))

\* The double nearest to (-1)^neg * (n + sticky) * 2^e (with sticky, n has at
\* least Precision + 2 bits)
DRound(neg, v, e, sticky) ==
  With(v, LAMBDA n :
  With(BBitLen(n), LAMBDA len :
    IF n = << >> THEN DZero
    ELSE IF len <= Precision
    THEN [neg |-> neg, m |-> BShl(n, Precision - len), e |-> e - (Precision - len)]
    ELSE DRoundCut(neg, n, e, sticky, len - Precision)))

\* int -> float (exact for the integers of a scan)
DFromInt(n) == DRound(n < 0, BFromInt(IF n < 0 THEN -n ELSE n), 0, FALSE)

DNeg(a) == IF a.m = << >> THEN a ELSE [a EXCEPT !.neg = ~a.neg]

\* |a| ? |b|
DCmpMag(a, b) ==
  IF a.m = << >> THEN (IF b.m = << >> THEN 0 ELSE -1)
  ELSE IF b.m = << >> THEN 1
  ELSE IF a.e < b.e THEN -1
  ELSE IF a.e > b.e THEN 1
  ELSE BCmp(a.m, b.m)

\* a == b
DEq(v, w) ==
  With(<<v, w>>, LAMBDA p :
    DCmpMag(p[1], p[2]) = 0 /\ (p[1].m = << >> \/ p[1].neg = p[2].neg))

\* a < b
DLt(v, w) ==
  With(<<v, w>>, LAMBDA p :
    LET a == p[1]
        b == p[2]
    IN  IF a.neg /\ ~b.neg THEN a.m # << >> \/ b.m # << >>
        ELSE IF ~a.neg /\ b.neg THEN FALSE
        ELSE IF a.neg THEN DCmpMag(a, b) > 0
        ELSE DCmpMag(a, b) < 0)

\* a + b for values already computed
DAddExact(a, b, e) ==
  With(<<BShl(a.m, a.e - e), BShl(b.m, b.e - e)>>, LAMBDA p :
    IF a.neg = b.neg THEN DRound(a.neg, BAdd(p[1], p[2]), e, FALSE)
    ELSE IF BCmp(p[1], p[2]) >= 0 THEN DRound(a.neg, BSub(p[1], p[2]), e, FALSE)
    ELSE DRound(b.neg, BSub(p[2], p[1]), e, FALSE))

\* a + b
DAdd(v, w) ==
  With(<<v, w>>, LAMBDA p :
    IF p[1].m = << >> THEN p[2]
    ELSE IF p[2].m = << >> THEN p[1]
    ELSE DAddExact(p[1], p[2], MinOf(p[1].e, p[2].e)))

\* a - b
DSub(v, w) == With(w, LAMBDA b : DAdd(v, DNeg(b)))

\* a * n for an integer 0 <= n <= Base (float * int: the int converts exactly)
DMulInt(v, n) ==
  With(v, LAMBDA a :
    IF a.m = << >> \/ n = 0 THEN DZero
    ELSE DRound(a.neg, BMulSmall(a.m, n), a.e, FALSE))

\* a / b for b # 0
DDiv(v, w) ==
  With(<<v, w>>, LAMBDA p :
    IF p[1].m = << >> THEN DZero
    ELSE With(BDivMod(BShl(p[1].m, Precision + 3), p[2].m), LAMBDA qr :
           DRound(p[1].neg # p[2].neg, qr[1],
                  p[1].e - p[2].e - (Precision + 3), qr[2] # << >>)))

\* |a| cut to an integer
DIntPart(a) ==
  IF a.m = << >> THEN 0
  ELSE IF a.e >= 0 THEN BToInt(BShl(a.m, a.e))
  ELSE BToInt(BShr(a.m, -a.e))

\* whether a has a fractional part
DHasFrac(a) ==
  a.m # << >> /\ a.e < 0 /\ BShl(BShr(a.m, -a.e), -a.e) # a.m

\* int(a): truncation toward zero
DTrunc(v) ==
  With(v, LAMBDA a : IF a.neg THEN -DIntPart(a) ELSE DIntPart(a))

\* ceil(a)
DCeil(v) ==
  With(v, LAMBDA a :
    IF a.neg THEN -DIntPart(a)
    ELSE DIntPart(a) + (IF DHasFrac(a) THEN 1 ELSE 0))

(***************************************************************************)
(* _Mirror._iter_range(x0, x1, step), with numpy's arange, slicing and     *)
(* integer conversion spelled out.                                         *)
(***************************************************************************)
MAX_STEP == 500

\* dx = (x1 - x0) / step
StepSize(x0, x1, step) == DDiv(DSub(x1, x0), DFromInt(step))

\* len(np.arange(x0, x1, dx)) = ceil((x1 - x0) / dx)
ArangeLen(x0, x1, dx) == MaxOf(DCeil(DDiv(DSub(x1, x0), dx)), 0)

\* np.arange(x0, x1, dx)[i], 0-based: numpy stores x0 and x0 + dx, then fills
\* element i >= 2 with x0 + i * delta, delta = (x0 + dx) - x0
ArangeAt(x0, dx, i) ==
  IF i = 0 THEN x0
  ELSE IF i = 1 THEN DAdd(x0, dx)
  ELSE DAdd(x0, DMulInt(DSub(DAdd(x0, dx), x0), i))

\* len(xs[::MAX_STEP]) for len(xs) = n
SliceLen(n) == (n + MAX_STEP - 1) \div MAX_STEP

\* x1s[k] (1-based, of cnt): x0s + dx * min(step, MAX_STEP), and x1s[-1] = x1
ChunkEnd(lo, x1, step, dx, k, cnt) ==
  IF k = cnt THEN x1 ELSE DAdd(lo, DMulInt(dx, MinOf(step, MAX_STEP)))

\* steps[k] = int((x1s[k] - x0s[k]) / dx)
ChunkSteps(lo, hi, dx) == DTrunc(DDiv(DSub(hi, lo), dx))

\* (x0s[k], x1s[k], steps[k])
Chunk(x0, x1, step, dx, k, cnt) ==
  With(ArangeAt(x0, dx, MAX_STEP * (k - 1)), LAMBDA lo :
  With(ChunkEnd(lo, x1, step, dx, k, cnt), LAMBDA hi :
    [x0 |-> lo, x1 |-> hi, n |-> ChunkSteps(lo, hi, dx)]))

\* The sequence of chunks that _iter_range yields
IterRange(v0, v1, step) ==
  With(<<v0, v1>>, LAMBDA p :
  With(StepSize(p[1], p[2], step), LAMBDA dx :
  With(SliceLen(ArangeLen(p[1], p[2], dx)), LAMBDA cnt :
    [k \in 1..cnt |-> Chunk(p[1], p[2], step, dx, k, cnt)])))

(***************************************************************************)
(* Inputs.  A number given by the caller is a pair <<num, den>>, the       *)
(* decimal num/den; ToFloat is the float Python makes of it (the nearest   *)
(* double).  Energies (eV) and angles (deg) are whole numbers, wavelengths *)
(* (nm) are given in thousandths.                                          *)
(***************************************************************************)
ToFloat(v) == DDiv(DFromInt(v[1]), DFromInt(v[2]))

MaxFullChunks == 2
MaxThetaStep == 2

ScanKinds == {"Energy", "Wave", "Angle"}

\* <<x0, x1>> with x1 > x0, in and out of the multilayer bounds
Domains(kind) ==
  IF kind = "Energy"
  THEN {<<<<10, 1>>, <<200, 1>>>>, <<<<30, 1>>, <<100, 1>>>>,
        <<<<100, 1>>, <<200, 1>>>>, <<<<30, 1>>, <<30000, 1>>>>,
        <<<<100, 1>>, <<30001, 1>>>>}
  ELSE IF kind = "Wave"
  THEN {<<<<40, 1000>>, <<41000, 1000>>>>, <<<<41, 1000>>, <<41000, 1000>>>>,
        <<<<1000, 1000>>, <<41001, 1000>>>>}
  ELSE {<<<<-1, 1>>, <<55, 1>>>>, <<<<11, 1>>, <<55, 1>>>>,
        <<<<0, 1>>, <<90, 1>>>>, <<<<11, 1>>, <<91, 1>>>>}

\* point counts: a few below the cap, and around each multiple of it
StepChoices ==
  {1, 3, 50} \cup
  {MAX_STEP * j + d : j \in 1..MaxFullChunks, d \in {0, 1, 100, 200}}

SweepSteps == {50, MAX_STEP + 100}

(***************************************************************************)
(* Tables.  A response of the service to a request for Npts points has     *)
(* Npts + 1 rows (both ends of the range included).  A table is a sequence *)
(* of segments [req, first, last]: the rows first..last of the response to *)
(* the req-th request of the scan, in order.                               *)
(***************************************************************************)
ResponseRows(npts) == npts + 1

Response(req, npts) == [req |-> req, first |-> 1, last |-> ResponseRows(npts)]

\* rows[:-1] of one response, as a table
DropLast(seg) ==
  IF seg.last - 1 < seg.first THEN << >> ELSE <<[seg EXCEPT !.last = @ - 1]>>

RECURSIVE RowCount(_)
RowCount(rows) ==
  IF rows = << >> THEN 0
  ELSE rows[1].last - rows[1].first + 1 + RowCount(Tail(rows))

NoTable == [type |-> "none", rows |-> << >>]

NoRequest == [script |-> "none", scan |-> "none", min |-> DZero, max |-> DZero, npts |-> 0]

(***************************************************************************)
(* The scan methods.  A scan is the frame of one calculate_*_scan call:    *)
(* pc is "none" (no call), "waiting" (a request is posted and _process     *)
(* waits for the answer), "returned" or "raised".                          *)
(***************************************************************************)
NoScan ==
  [pc |-> "none", kind |-> "none", x0 |-> <<0, 1>>, x1 |-> <<0, 1>>, step |-> 0,
   chunks |-> << >>, k |-> 0, values |-> << >>, pending |-> NoRequest,
   sent |-> 0, failed |-> 0, result |-> NoTable, error |-> "none"]

\* ThickMirror.calculate_*_scan: the request, the caller's numbers unchanged
ThickRequest(kind, x0, x1, step) ==
  [script |-> "mirror.pl", scan |-> kind, min |-> ToFloat(x0), max |-> ToFloat(x1),
   npts |-> step]

\* MultiLayerMirror.calculate_*_scan: the request of one chunk
MultiRequest(kind, c) ==
  [script |-> "multi.pl", scan |-> kind, min |-> c.x0, max |-> c.x1, npts |-> c.n]

\* Validate with the checks of the upper limits left out
Validate_LowerOnly(kind, x0, x1) ==
  IF kind = "Energy"
  THEN IF DLt(ToFloat(x0), DFromInt(30)) THEN "ValueError" ELSE "ok"
  ELSE IF kind = "Wave"
  THEN IF DLt(ToFloat(x0), ToFloat(<<41, 1000>>)) THEN "ValueError" ELSE "ok"
  ELSE IF DLt(ToFloat(x0), DFromInt(0)) THEN "ValueError" ELSE "ok"

\* The checks MultiLayerMirror makes before its loop: "ok" or the exception
Validate(kind, x0, x1) ==
  IF kind = "Energy"
  THEN IF DLt(ToFloat(x0), DFromInt(30)) THEN "ValueError"
       ELSE IF DLt(DFromInt(30000), ToFloat(x1)) THEN "ValueError" ELSE "ok"
  ELSE IF kind = "Wave"
  THEN IF DLt(ToFloat(x0), ToFloat(<<41, 1000>>)) THEN "ValueError"
       ELSE IF DLt(ToFloat(<<41, 1>>), ToFloat(x1)) THEN "ValueError" ELSE "ok"
  ELSE IF DLt(ToFloat(x0), DFromInt(0)) THEN "ValueError"
       ELSE IF DLt(DFromInt(90), ToFloat(x1)) THEN "ValueError" ELSE "ok"

\* The frame after the call has run up to its first request (or its raise)
StartScan(m, kind, x0, x1, step) ==
  LET base == [NoScan EXCEPT !.kind = kind, !.x0 = x0, !.x1 = x1, !.step = step]
  IN  IF m = "thick"
      THEN [base EXCEPT !.pc = "waiting", !.k = 1, !.sent = 1,
                        !.pending = ThickRequest(kind, x0, x1, step)]
      ELSE IF Validate(kind, x0, x1) # "ok"
      THEN [base EXCEPT !.pc = "raised", !.error = Validate(kind, x0, x1)]
      ELSE With(IterRange(ToFloat(x0), ToFloat(x1), step), LAMBDA chunks :
             IF chunks = << >>
             THEN \* x1s[-1] = x1 on an empty array
                  [base EXCEPT !.pc = "raised", !.error = "IndexError"]
             ELSE [base EXCEPT !.pc = "waiting", !.chunks = chunks, !.k = 1,
                               !.sent = 1,
                               !.pending = MultiRequest(kind, chunks[1])])

\* _process returned the rows of the pending request
OnResponse(m, s) ==
  LET rows == Response(s.k, s.pending.npts)
  IN  IF m = "thick"
      THEN [s EXCEPT !.pc = "returned", !.pending = NoRequest,
                     !.result = [type |-> "list", rows |-> <<rows>>]]
      ELSE LET values == s.values \o DropLast(rows)
           IN  IF s.k < Len(s.chunks)
               THEN [s EXCEPT !.values = values, !.k = s.k + 1, !.sent = s.sent + 1,
                              !.pending = MultiRequest(s.kind, s.chunks[s.k + 1])]
               ELSE [s EXCEPT !.pc = "returned", !.values = << >>,
                              !.pending = NoRequest,
                              !.result = [type |-> "ndarray", rows |-> values]]

\* The ways _process fails, and the exception of each
FailureModes == {"connection", "status", "errorpage", "download", "parse"}

ErrorOf(mode) ==
  IF mode = "connection" THEN "ConnectionError"
  ELSE IF mode \in {"status", "errorpage"} THEN "RuntimeError"
  ELSE IF mode = "download" THEN "URLError"
  ELSE "ValueError"

\* OnFailure as it would be if the loop caught the exception and returned the
\* rows it has
OnFailure_ReturnsPartial(m, s, mode) ==
  [s EXCEPT !.pc = "returned", !.failed = s.failed + 1, !.values = << >>,
            !.pending = NoRequest,
            !.result = [type |-> "ndarray", rows |-> s.values]]

\* _process raised: nothing catches it, the frame is gone with its values
OnFailure(m, s, mode) ==
  [s EXCEPT !.pc = "raised", !.error = ErrorOf(mode), !.failed = s.failed + 1,
            !.values = << >>, !.pending = NoRequest]

(***************************************************************************)
(* EnergyAngleScan.  __init__ sets two attributes on the instance; the     *)
(* class defines scan and the property progress.  scan reads self.mirror.  *)
(***************************************************************************)
InstanceAttrs == {"_mirror", "_progress"}
ClassAttrs == {"__init__", "scan", "progress"}
HasAttr(name) == name \in InstanceAttrs \cup ClassAttrs

NoSweep ==
  [pc |-> "none", e0 |-> <<0, 1>>, e1 |-> <<0, 1>>, e_step |-> 0, thetas |-> 0,
   i |-> 0, cols |-> << >>, scans |-> 0, error |-> "none"]

\* values[:, i] = dvalues[:, 1]: "ok" or the exception
CopyColumn(e_step, table) ==
  IF table.type # "ndarray" THEN "TypeError"
  ELSE IF RowCount(table.rows) = 0 THEN "IndexError"
  ELSE IF RowCount(table.rows) # e_step THEN "ValueError"
  ELSE "ok"

VARIABLES mirror, scan, sweep, progress, requests

vars == <<mirror, scan, sweep, progress, requests>>

Idle == scan.pc = "none" /\ sweep.pc = "none"

Posted(s) == IF s.pc = "waiting" THEN <<s.pending>> ELSE << >>

Init ==
  /\ mirror \in {"thick", "multi"}
  /\ scan = NoScan
  /\ sweep = NoSweep
  /\ progress = DFromInt(0)
  /\ requests = << >>

\* A caller invokes mirror.calculate_<kind>_scan(x0, x1, step, fixed)
CallScan ==
  /\ Idle
  /\ \E kind \in ScanKinds : \E d \in Domains(kind) : \E step \in StepChoices :
     \E s \in {StartScan(mirror, kind, d[1], d[2], step)} :
       /\ scan' = s
       /\ requests' = Posted(s)
  /\ UNCHANGED <<mirror, sweep, progress>>

\* The end of one angle's energy scan inside the sweep: line 253, then the loop
SweepAfterScan(s) ==
  IF s.pc = "raised"
  THEN [sweep EXCEPT !.pc = "raised", !.error = s.error]
  ELSE IF s.pc = "returned"
  THEN IF CopyColumn(sweep.e_step, s.result) = "ok"
       THEN [sweep EXCEPT !.i = sweep.i + 1, !.cols = Append(sweep.cols, s.result.rows)]
       ELSE [sweep EXCEPT !.pc = "raised", !.error = CopyColumn(sweep.e_step, s.result)]
  ELSE sweep

\* The frame of a scan that has ended inside the sweep is dropped once the
\* sweep goes on to its next angle
ScanAfterStep(s, sw) ==
  IF sw.pc = "loop" /\ s.pc = "returned" THEN NoScan ELSE s

\* The service answers the pending request
RemoteOk ==
  /\ scan.pc = "waiting"
  /\ LET s  == OnResponse(mirror, scan)
         sw == IF sweep.pc = "loop" THEN SweepAfterScan(s) ELSE sweep
     IN  /\ scan' = ScanAfterStep(s, sw)
         /\ sweep' = sw
         /\ requests' = requests \o Posted(s)
  /\ UNCHANGED <<mirror, progress>>

\* The pending request fails
RemoteFail ==
  /\ scan.pc = "waiting"
  /\ \E mode \in FailureModes :
       LET s == OnFailure(mirror, scan, mode)
       IN  /\ scan' = s
           /\ sweep' = IF sweep.pc = "loop" THEN SweepAfterScan(s) ELSE sweep
  /\ UNCHANGED <<mirror, progress, requests>>

\* A caller invokes EnergyAngleScan.scan: lines 245-248
CallSweep ==
  /\ Idle
  /\ \E d \in Domains("Energy") : \E e_step \in SweepSteps :
     \E theta_step \in 0..MaxThetaStep :
       sweep' = [NoSweep EXCEPT !.pc = "loop", !.e0 = d[1], !.e1 = d[2],
                                !.e_step = e_step, !.thetas = theta_step]
  /\ progress' = DFromInt(0)
  /\ requests' = << >>
  /\ UNCHANGED <<mirror, scan>>

\* One turn of the loop up to the first request of its energy scan: lines 250-252
SweepIter ==
  /\ sweep.pc = "loop"
  /\ scan.pc = "none"
  /\ sweep.i < sweep.thetas
  /\ progress' = DDiv(DFromInt(sweep.i), DFromInt(sweep.thetas))
  /\ IF HasAttr("mirror")
     THEN \E s \in {StartScan(mirror, "Energy", sweep.e0, sweep.e1, sweep.e_step)} :
            /\ scan' = s
            /\ requests' = requests \o Posted(s)
            /\ sweep' = [SweepAfterScan(s) EXCEPT !.scans = sweep.scans + 1]
     ELSE /\ sweep' = [sweep EXCEPT !.pc = "raised", !.error = "AttributeError"]
          /\ UNCHANGED <<scan, requests>>
  /\ UNCHANGED mirror

\* The loop is over: lines 255-257
SweepFinish ==
  /\ sweep.pc = "loop"
  /\ scan.pc = "none"
  /\ sweep.i = sweep.thetas
  /\ progress' = DFromInt(1)
  /\ sweep' = [sweep EXCEPT !.pc = "returned"]
  /\ UNCHANGED <<mirror, scan, requests>>

Ended ==
  IF sweep.pc = "none" THEN scan.pc \in {"returned", "raised"}
  ELSE sweep.pc \in {"returned", "raised"}

\* The caller has the table, the matrix or the exception, and may call again
CallerResumes ==
  /\ Ended
  /\ scan' = NoScan
  /\ sweep' = NoSweep
  /\ requests' = << >>
  /\ UNCHANGED <<mirror, progress>>

Next ==
  \/ CallScan
  \/ RemoteOk
  \/ RemoteFail
  \/ CallSweep
  \/ SweepIter
  \/ SweepFinish
  \/ CallerResumes

Spec == Init /\ [][Next]_vars

(***************************************************************************)
(* Properties.                                                             *)
(***************************************************************************)
\* A scan called by the caller itself, not by the sweep
TopScan == sweep.pc = "none" /\ scan.pc # "none"

\* ceil(n / MAX_STEP)
ChunksNeeded(n) == (n + MAX_STEP - 1) \div MAX_STEP

\* The row `row` of the response to request `req` is in the table
HasRow(rows, req, row) ==
  \E j \in 1..Len(rows) :
    rows[j].req = req /\ rows[j].first <= row /\ row <= rows[j].last

\* C1: a multilayer scan of more than MAX_STEP points returns step + 1 rows:
\* every response but the last without its final row, the last response whole,
\* and no boundary value both as the final row of one chunk and the first row
\* of the next.
C1_Stitching ==
  (mirror = "multi" /\ TopScan /\ scan.pc = "returned" /\ scan.step > MAX_STEP) =>
     LET rows == scan.result.rows
     IN  /\ RowCount(rows) = scan.step + 1
         /\ \A k \in 1..Len(requests) :
              HasRow(rows, k, ResponseRows(requests[k].npts)) <=> k = Len(requests)
         /\ \A k \in 1..(Len(requests) - 1) :
              ~ /\ HasRow(rows, k, ResponseRows(requests[k].npts))
                /\ HasRow(rows, k + 1, 1)
                /\ DEq(requests[k].max, requests[k + 1].min)

\* C2: a multilayer scan of at most MAX_STEP points sends one request and
\* returns the rows of its response, all of them, in order.
C2_SingleChunkPassthrough ==
  (mirror = "multi" /\ TopScan /\ scan.pc = "returned" /\ scan.step <= MAX_STEP) =>
     /\ Len(requests) = 1
     /\ scan.result.rows = <<Response(1, requests[1].npts)>>

\* The limits of a multilayer scan, on the numbers as the caller gave them:
\* energy 30..30000 eV, wavelength 0.041..41 nm, angle 0..90 deg
OutOfBounds(kind, x0, x1) ==
  IF kind = "Energy" THEN x0[1] < 30 * x0[2] \/ x1[1] > 30000 * x1[2]
  ELSE IF kind = "Wave" THEN 1000 * x0[1] < 41 * x0[2] \/ x1[1] > 41 * x1[2]
  ELSE x0[1] < 0 \/ x1[1] > 90 * x1[2]

\* C3: a multilayer scan whose start is below the minimum or whose end is above
\* the maximum of its kind ends in a ValueError and has sent no request.
C3_BoundsRejection ==
  (mirror = "multi" /\ scan.pc # "none" /\ OutOfBounds(scan.kind, scan.x0, scan.x1)) =>
     /\ scan.pc = "raised"
     /\ scan.error = "ValueError"
     /\ scan.sent = 0
     /\ scan.failed = 0
     /\ TopScan => requests = << >>

\* C3 happens: a scan in bounds at its start and above the maximum at its end
\* was rejected
C3_Witness ==
  /\ mirror = "multi"
  /\ TopScan
  /\ scan.kind = "Energy"
  /\ scan.x0 = <<100, 1>>
  /\ scan.x1 = <<30001, 1>>
  /\ scan.pc = "raised"
  /\ requests = << >>

\* C4: the chunks of a multilayer scan tile its domain in order: the first
\* starts at x0, each ends where the next starts, the last ends at x1.
C4_PartitionTiles ==
  (mirror = "multi" /\ scan.chunks # << >>) =>
     LET c == scan.chunks
     IN  /\ DEq(c[1].x0, ToFloat(scan.x0))
         /\ DEq(c[Len(c)].x1, ToFloat(scan.x1))
         /\ \A k \in 1..(Len(c) - 1) :
              DEq(c[k].x1, c[k + 1].x0) /\ DLt(c[k].x0, c[k + 1].x0)

\* C5: the k-th chunk (k = 0, 1, ...) has min(step - MAX_STEP * k, MAX_STEP)
\* points, and there are ceil(step / MAX_STEP) chunks.
C5_PartitionCounts ==
  (mirror = "multi" /\ scan.chunks # << >>) =>
     /\ Len(scan.chunks) = ChunksNeeded(scan.step)
     /\ \A k \in 1..Len(scan.chunks) :
          scan.chunks[k].n = MinOf(scan.step - MAX_STEP * (k - 1), MAX_STEP)

\* C6: once the request of chunk k has failed the scan has raised, it has sent
\* the requests of the chunks 1..k once each and no other, and the caller has
\* no table.
C6_FailureAborts ==
  (scan.failed > 0) =>
     /\ scan.pc = "raised"
     /\ scan.failed = 1
     /\ scan.result = NoTable
     /\ scan.pending = NoRequest
     /\ scan.sent = scan.k
     /\ TopScan => Len(requests) = scan.k
     /\ (TopScan /\ mirror = "multi") =>
          \A j \in 1..scan.k : requests[j] = MultiRequest(scan.kind, scan.chunks[j])

\* C6 happens: the second of three chunks failed, after the rows of the first
\* were taken
C6_Witness ==
  /\ mirror = "multi"
  /\ TopScan
  /\ scan.pc = "raised"
  /\ scan.failed = 1
  /\ scan.k = 2
  /\ Len(scan.chunks) = 3
  /\ scan.result = NoTable

SweepEnded == sweep.pc \in {"returned", "raised"}

\* i / n as a float
Ratio(i, n) == DDiv(DFromInt(i), DFromInt(n))

C9_SweepMatrix ==
  (SweepEnded /\ scan.failed = 0 /\ ~OutOfBounds("Energy", sweep.e0, sweep.e1)) =>
     /\ sweep.pc = "returned"
     /\ Len(sweep.cols) = sweep.thetas
     /\ \A i \in 1..Len(sweep.cols) : RowCount(sweep.cols[i]) = sweep.e_step

\* C10: no request of any scan of any mirror asks for more than MAX_STEP points.
C10_ServiceCap ==
  \A j \in 1..Len(requests) : requests[j].npts <= MAX_STEP

====
